---------------------------- MODULE Spec2Model ----------------------------
(***************************************************************************)
(* Model of styles/src/theme/syntax.ts: the default syntax profile         *)
(* (build_default_syntax), the override merge (merge_syntax, a call of     *)
(* deepmerge) and their composition build_syntax.                          *)
(*                                                                         *)
(* A SyntaxHighlightStyle is a function from the attributes it sets to     *)
(* their values; a Syntax profile is a function from the keys it holds to  *)
(* styles.  An attribute or a key that is absent is outside the DOMAIN.    *)
(* TypeScript types are erased at run time, so the model follows what the  *)
(* JavaScript does, not what the declarations promise.                     *)
(***************************************************************************)
EXTENDS Integers, Sequences, FiniteSets, TLC

(***************************************************************************)
(* interface Syntax: the declared keys.                                    *)
(***************************************************************************)
RequiredCategories ==
    { "comment", "comment.doc", "primary", "predictive",
      "emphasis", "emphasis.strong", "title", "link_uri", "link_text",
      "text.literal",
      "punctuation", "punctuation.bracket", "punctuation.delimiter",
      "punctuation.special", "punctuation.list_marker",
      "string", "string.special",
      "constructor", "variant", "type",
      "variable", "label", "tag", "attribute", "property", "constant",
      "keyword", "enum", "operator", "number", "boolean",
      "function",
      "preproc", "embedded" }

OptionalCategories ==
    { "string.special.symbol", "string.escape", "string.regex",
      "type.builtin", "variable.special", "constant.builtin",
      "function.builtin", "function.definition",
      "function.special.definition", "function.method",
      "function.method.builtin" }

Categories == RequiredCategories \cup OptionalCategories

\* interface SyntaxHighlightStyle: the four optional attributes.
Attributes == { "color", "weight", "underline", "italic" }

\* An object without properties: {}.
EmptyObject == [k \in {} |-> ""]

(***************************************************************************)
(* chroma-js colours.  A colour is an <<r, g, b>> triple of bytes; hex()   *)
(* formats it as "#rrggbb".                                                *)
(***************************************************************************)
HexDigits == << "0", "1", "2", "3", "4", "5", "6", "7",
                "8", "9", "a", "b", "c", "d", "e", "f" >>

HexByte(n) == HexDigits[(n \div 16) + 1] \o HexDigits[(n % 16) + 1]

hex(c) == "#" \o HexByte(c[1]) \o HexByte(c[2]) \o HexByte(c[3])

(***************************************************************************)
(* ColorScheme.ramps: each ramp is a chroma scale, a function from a       *)
(* lightness in [0, 1] to a colour.  Lightness is written in hundredths;   *)
(* the samples are the ones build_default_syntax takes.  A scale is the    *)
(* channel-wise interpolation between its two end colours.                 *)
(***************************************************************************)
Lightness == { 40, 50, 71, 86, 100 }

RampNames == { "neutral", "blue", "orange", "green", "cyan", "yellow" }

Lerp(a, b, l) == (a * (100 - l) + b * l) \div 100

Scale(lo, hi) ==
    [l \in Lightness |->
        << Lerp(lo[1], hi[1], l), Lerp(lo[2], hi[2], l), Lerp(lo[3], hi[3], l) >>]

\* A dark scheme: neutral(1) is #ffffff and blue(0.5) is #3b82f6.
DarkRamps ==
    [ neutral |-> Scale(<<0, 0, 0>>, <<255, 255, 255>>),
      blue    |-> Scale(<<18, 30, 237>>, <<100, 230, 255>>),
      orange  |-> Scale(<<180, 60, 0>>, <<255, 200, 100>>),
      green   |-> Scale(<<0, 100, 20>>, <<120, 255, 160>>),
      cyan    |-> Scale(<<0, 120, 140>>, <<100, 255, 255>>),
      yellow  |-> Scale(<<160, 130, 0>>, <<255, 250, 120>>) ]

\* A light scheme: the neutral ramp runs the other way.
LightRamps ==
    [ neutral |-> Scale(<<250, 250, 250>>, <<10, 10, 10>>),
      blue    |-> Scale(<<180, 200, 255>>, <<0, 20, 120>>),
      orange  |-> Scale(<<255, 220, 180>>, <<120, 50, 0>>),
      green   |-> Scale(<<200, 255, 210>>, <<0, 80, 10>>),
      cyan    |-> Scale(<<200, 250, 255>>, <<0, 90, 100>>),
      yellow  |-> Scale(<<255, 250, 200>>, <<110, 90, 0>>) ]

\* A monochrome scheme: every ramp is the same grey scale.
MonoRamps ==
    [n \in RampNames |-> Scale(<<32, 32, 32>>, <<224, 224, 224>>)]

RampSets == { DarkRamps, LightRamps, MonoRamps }

(***************************************************************************)
(* chroma.mix(a, b, 0.45, "lch"): interpolation in the LCH colour space.   *)
(* The LCH arithmetic is not computed here: the result is some colour, and *)
(* the step that mixes chooses it among these.                             *)
(***************************************************************************)
MixResults(a, b) ==
    { << Lerp(a[1], b[1], 45), Lerp(a[2], b[2], 45), Lerp(a[3], b[3], 45) >>,
      << Lerp(a[1], b[1], 50), Lerp(a[2], b[2], 40), Lerp(a[3], b[3], 45) >> }

\* font_weights of ../common: each name is its own FontWeight.
font_weights == [ normal |-> "normal", bold |-> "bold" ]

(***************************************************************************)
(* const default_syntax_highlight_style                                    *)
(***************************************************************************)
default_syntax_highlight_style ==
    [ weight |-> "normal", underline |-> FALSE, italic |-> FALSE ]

(***************************************************************************)
(* Object.keys({} as Syntax): the type assertion is erased, so these are   *)
(* the keys of an empty object literal.                                    *)
(***************************************************************************)
\* As if the keys were those the interface declares.
SyntaxDeclaredKeys == Categories

SyntaxRuntimeKeys == {}

\* The temporary object `syntax` after the loop over SyntaxRuntimeKeys.
syntax_template == [key \in SyntaxRuntimeKeys |-> default_syntax_highlight_style]

\* As if keyword were sampled from the orange ramp.
color_keyword_from_orange(color_scheme, predictive) ==
    [ primary     |-> hex(color_scheme.ramps.neutral[100]),
      comment     |-> hex(color_scheme.ramps.neutral[71]),
      punctuation |-> hex(color_scheme.ramps.neutral[86]),
      predictive  |-> hex(predictive),
      emphasis    |-> hex(color_scheme.ramps.blue[50]),
      string      |-> hex(color_scheme.ramps.orange[50]),
      function    |-> hex(color_scheme.ramps.yellow[50]),
      type        |-> hex(color_scheme.ramps.cyan[50]),
      constructor |-> hex(color_scheme.ramps.blue[50]),
      variant     |-> hex(color_scheme.ramps.blue[50]),
      property    |-> hex(color_scheme.ramps.blue[50]),
      enum        |-> hex(color_scheme.ramps.orange[50]),
      operator    |-> hex(color_scheme.ramps.orange[50]),
      number      |-> hex(color_scheme.ramps.green[50]),
      boolean     |-> hex(color_scheme.ramps.green[50]),
      constant    |-> hex(color_scheme.ramps.green[50]),
      keyword     |-> hex(color_scheme.ramps.orange[50]) ]

(***************************************************************************)
(* const color = { ... }: the palette of semantic colours.                 *)
(***************************************************************************)
color(color_scheme, predictive) ==
    [ primary     |-> hex(color_scheme.ramps.neutral[100]),
      comment     |-> hex(color_scheme.ramps.neutral[71]),
      punctuation |-> hex(color_scheme.ramps.neutral[86]),
      predictive  |-> hex(predictive),
      emphasis    |-> hex(color_scheme.ramps.blue[50]),
      string      |-> hex(color_scheme.ramps.orange[50]),
      function    |-> hex(color_scheme.ramps.yellow[50]),
      type        |-> hex(color_scheme.ramps.cyan[50]),
      constructor |-> hex(color_scheme.ramps.blue[50]),
      variant     |-> hex(color_scheme.ramps.blue[50]),
      property    |-> hex(color_scheme.ramps.blue[50]),
      enum        |-> hex(color_scheme.ramps.orange[50]),
      operator    |-> hex(color_scheme.ramps.orange[50]),
      number      |-> hex(color_scheme.ramps.green[50]),
      boolean     |-> hex(color_scheme.ramps.green[50]),
      constant    |-> hex(color_scheme.ramps.green[50]),
      keyword     |-> hex(color_scheme.ramps.blue[50]) ]

(***************************************************************************)
(* The properties the object literal of default_syntax writes after the    *)
(* spread of `syntax`, each a new object that holds only what is written.  *)
(***************************************************************************)
LiteralKeys ==
    RequiredCategories \cup { "string.special.symbol", "string.escape", "string.regex" }

default_syntax_literal(color_scheme, predictive) ==
    LET c == color(color_scheme, predictive) IN
    [key \in LiteralKeys |->
        CASE key = "comment"         -> [color |-> c.comment]
          [] key = "comment.doc"     -> [color |-> c.comment]
          [] key = "primary"         -> [color |-> c.primary]
          [] key = "predictive"      -> [color |-> c.predictive, italic |-> TRUE]
          [] key = "emphasis"        -> [color |-> c.emphasis]
          [] key = "emphasis.strong" -> [color |-> c.emphasis, weight |-> font_weights.bold]
          [] key = "title"           -> [color |-> c.primary, weight |-> font_weights.bold]
          [] key = "link_uri"        ->
                [color |-> hex(color_scheme.ramps.green[50]), underline |-> TRUE]
          [] key = "link_text"       ->
                [color |-> hex(color_scheme.ramps.orange[50]), italic |-> TRUE]
          [] key = "text.literal"            -> [color |-> c.string]
          [] key = "punctuation"             -> [color |-> c.punctuation]
          [] key = "punctuation.bracket"     -> [color |-> c.punctuation]
          [] key = "punctuation.delimiter"   -> [color |-> c.punctuation]
          [] key = "punctuation.special"     ->
                [color |-> hex(color_scheme.ramps.neutral[86])]
          [] key = "punctuation.list_marker" -> [color |-> c.punctuation]
          [] key = "string"                -> [color |-> c.string]
          [] key = "string.special"        -> [color |-> c.string]
          [] key = "string.special.symbol" -> [color |-> c.string]
          [] key = "string.escape"         -> [color |-> c.comment]
          [] key = "string.regex"          -> [color |-> c.string]
          [] key = "constructor" -> [color |-> hex(color_scheme.ramps.blue[50])]
          [] key = "variant"     -> [color |-> hex(color_scheme.ramps.blue[50])]
          [] key = "type"        -> [color |-> c.type]
          [] key = "variable"    -> [color |-> c.primary]
          [] key = "label"       -> [color |-> hex(color_scheme.ramps.blue[50])]
          [] key = "tag"         -> [color |-> hex(color_scheme.ramps.blue[50])]
          [] key = "attribute"   -> [color |-> hex(color_scheme.ramps.blue[50])]
          [] key = "property"    -> [color |-> hex(color_scheme.ramps.blue[50])]
          [] key = "constant"    -> [color |-> c.constant]
          [] key = "keyword"     -> [color |-> c.keyword]
          [] key = "enum"        -> [color |-> c.enum]
          [] key = "operator"    -> [color |-> c.operator]
          [] key = "number"      -> [color |-> c.number]
          [] key = "boolean"     -> [color |-> c.boolean]
          [] key = "function"    -> [color |-> c.function]
          [] key = "preproc"     -> [color |-> c.primary]
          [] key = "embedded"    -> [color |-> c.primary]]

\* As if the literal left out `embedded`.
build_default_syntax_without_embedded(color_scheme, predictive) ==
    LET literal == default_syntax_literal(color_scheme, predictive) IN
    [key \in (DOMAIN syntax_template \cup DOMAIN literal) \ {"embedded"} |->
        IF key \in DOMAIN literal THEN literal[key] ELSE syntax_template[key]]

(***************************************************************************)
(* build_default_syntax: { ...syntax, comment: {...}, ... }.  A property   *)
(* the literal writes replaces the spread one as a whole.  `predictive` is *)
(* the colour chroma.mix returned.                                         *)
(***************************************************************************)
build_default_syntax(color_scheme, predictive) ==
    LET literal == default_syntax_literal(color_scheme, predictive) IN
    [key \in DOMAIN syntax_template \cup DOMAIN literal |->
        IF key \in DOMAIN literal THEN literal[key] ELSE syntax_template[key]]


(***************************************************************************)
(* deepmerge(target, source, { arrayMerge }).  Neither a profile nor a     *)
(* style holds an array, so arrayMerge is never called.  deepmerge clones  *)
(* what it copies; a clone is equal to its original as a value.            *)
(***************************************************************************)
cloneUnlessOtherwiseSpecified(value) == value

\* As if the target's value won where both set an attribute.
mergeStyleTargetWins(target, source) ==
    [a \in DOMAIN target \cup DOMAIN source |->
        IF a \in DOMAIN target THEN target[a] ELSE source[a]]

\* mergeObject on two styles: an attribute value is a string or a boolean,
\* which isMergeableObject rejects, so the source's value is copied.
mergeStyle(target, source) ==
    [a \in DOMAIN target \cup DOMAIN source |->
        IF a \in DOMAIN source THEN source[a] ELSE target[a]]

\* As if the merge were one level deep: { ...target, ...source }.
mergeObjectShallow(target, source) ==
    [key \in DOMAIN target \cup DOMAIN source |->
        IF key \in DOMAIN source THEN source[key] ELSE target[key]]

\* mergeObject on two profiles: every key of the target is cloned into the
\* destination; a key of the source that the target holds is merged
\* recursively (its value, a style, is a mergeable object), any other key of
\* the source is cloned in.
mergeObject(target, source) ==
    [key \in DOMAIN target \cup DOMAIN source |->
        IF key \in DOMAIN source
        THEN IF key \in DOMAIN target
             THEN mergeStyle(target[key], source[key])
             ELSE cloneUnlessOtherwiseSpecified(source[key])
        ELSE cloneUnlessOtherwiseSpecified(target[key])]

deepmerge(target, source) == mergeObject(target, source)

(***************************************************************************)
(* ColorScheme.syntax?: ThemeSyntax.  The optional property is the empty   *)
(* set when the scheme has none and {override} when it has one.            *)
(***************************************************************************)
NoSyntax == {}

OverrideOf(color_scheme) == CHOOSE o \in color_scheme.syntax : TRUE

\* As if the merge also filled in the attribute defaults.
merge_syntax_filling_defaults(default_syntax, color_scheme) ==
    LET merged == IF color_scheme.syntax = NoSyntax
                  THEN default_syntax
                  ELSE deepmerge(default_syntax, OverrideOf(color_scheme))
    IN [key \in DOMAIN merged |-> mergeStyle(default_syntax_highlight_style, merged[key])]

(***************************************************************************)
(* merge_syntax                                                            *)
(***************************************************************************)
merge_syntax(default_syntax, color_scheme) ==
    IF color_scheme.syntax = NoSyntax
    THEN default_syntax
    ELSE deepmerge(default_syntax, OverrideOf(color_scheme))

(***************************************************************************)
(* The color schemes build_syntax is called with.                          *)
(***************************************************************************)
\* A key no declaration of Syntax has.
UnknownKeys == { "unknown.category" }

OverrideKeys == Categories \cup UnknownKeys

Restrict(f, D) == [x \in D |-> f[x]]

\* Every style an override can give a key: any subset of the attributes,
\* with a colour that is a hex string or the empty string.
OverrideStyles ==
    { Restrict([color |-> c, weight |-> w, underline |-> u, italic |-> i], D) :
        c \in { "#112233", "" }, w \in { "normal", "bold" },
        u \in BOOLEAN, i \in BOOLEAN, D \in SUBSET Attributes }

\* Overrides of one key: every key with every style.
SingleKeyOverrides ==
    { [k \in {key} |-> st] : key \in OverrideKeys, st \in OverrideStyles }

\* Overrides of several keys at once, over fewer keys and styles.
MaxOverrideKeys == 2

SeveralKeys == { "comment", "emphasis.strong", "function.method", "unknown.category" }

SeveralStyles == { [color |-> "#445566"], [italic |-> TRUE], [color |-> "", weight |-> "bold"] }

SeveralKeyOverrides ==
    UNION { [K -> SeveralStyles] :
              K \in { K \in SUBSET SeveralKeys :
                        Cardinality(K) >= 2 /\ Cardinality(K) <= MaxOverrideKeys } }

Overrides == { EmptyObject } \cup SingleKeyOverrides \cup SeveralKeyOverrides

ColorSchemes ==
    [ ramps : RampSets, syntax : { NoSyntax } \cup { {o} : o \in Overrides } ]

(***************************************************************************)
(* Objects.  A profile object is held at an address 1, 2, ... and maps     *)
(* each of its keys to the address of a style object; the style object a   *)
(* profile p is created with for key k is held at <<p, k>>.  The heap maps *)
(* the addresses in use to the objects' contents.                          *)
(***************************************************************************)
EmptyHeap == [ styles |-> [x \in {} |-> EmptyObject], profiles |-> << >> ]

\* The profile at ref as a value: each key with the content of its style.
Deref(h, ref) == [key \in DOMAIN h.profiles[ref] |-> h.styles[h.profiles[ref][key]]]

\* The addresses of the objects a profile is made of.
Objects(h, ref) ==
    { << "profile", ref >> } \cup
    { << "style", h.profiles[ref][key] >> : key \in DOMAIN h.profiles[ref] }

\* A new profile object with a new style object per key: what an object
\* literal, or a deep clone, creates.
Alloc(h, value) ==
    LET ref == Len(h.profiles) + 1
        fresh == { << ref, key >> : key \in DOMAIN value }
    IN [ heap |->
           [ styles |-> [x \in DOMAIN h.styles \cup fresh |->
                            IF x \in fresh THEN value[x[2]] ELSE h.styles[x]],
             profiles |-> Append(h.profiles, [key \in DOMAIN value |-> << ref, key >>]) ],
         ref |-> ref ]

(***************************************************************************)
(* The color scheme objects the callers hold.  A scheme's syntax property  *)
(* is the empty set, or holds the address of its override object.          *)
(***************************************************************************)
SchemeOverrides ==
    << (("comment" :> [italic |-> TRUE]) @@ ("function.method" :> [color |-> "#112233"])),
       ("keyword" :> [color |-> "#445566", weight |-> "bold"]) >>

SchemeObjects ==
    << [ ramps |-> DarkRamps,  syntax |-> {} ],
       [ ramps |-> DarkRamps,  syntax |-> {1} ],
       [ ramps |-> LightRamps, syntax |-> {2} ] >>

\* The heap that holds the schemes' override objects, before any call.
SchemeHeap == Alloc(Alloc(EmptyHeap, SchemeOverrides[1]).heap, SchemeOverrides[2]).heap

OverrideRef(s) == CHOOSE ref \in SchemeObjects[s].syntax : TRUE

\* The scheme as build_syntax reads it in heap h.
SchemeValue(h, s) ==
    [ ramps |-> SchemeObjects[s].ramps,
      syntax |-> { Deref(h, ref) : ref \in SchemeObjects[s].syntax } ]

\* build_default_syntax returns an object literal: new objects throughout.
build_default_syntax_heap(h, s, predictive) ==
    Alloc(h, build_default_syntax(SchemeValue(h, s), predictive))

(***************************************************************************)
(* merge_syntax on objects: without an override the default object itself  *)
(* is returned; deepmerge writes to neither argument and returns new       *)
(* objects, clones included (its `clone` option is left at its default).   *)
(***************************************************************************)
\* As if the merge wrote the override into the default object.
merge_syntax_heap_in_place(h, default_ref, s) ==
    IF SchemeObjects[s].syntax = {}
    THEN [ heap |-> h, ref |-> default_ref ]
    ELSE LET merged == deepmerge(Deref(h, default_ref), Deref(h, OverrideRef(s)))
             at == [key \in DOMAIN merged |->
                      IF key \in DOMAIN h.profiles[default_ref]
                      THEN h.profiles[default_ref][key]
                      ELSE << default_ref, key >>]
             written == { at[key] : key \in DOMAIN merged }
         IN [ heap |->
                [ styles |-> [x \in DOMAIN h.styles \cup written |->
                                IF x \in written
                                THEN merged[CHOOSE key \in DOMAIN merged : at[key] = x]
                                ELSE h.styles[x]],
                  profiles |-> [h.profiles EXCEPT ![default_ref] = at] ],
              ref |-> default_ref ]

\* As if deepmerge ran with clone: false: what is not merged is shared.
merge_syntax_heap_sharing(h, default_ref, s) ==
    IF SchemeObjects[s].syntax = {}
    THEN [ heap |-> h, ref |-> default_ref ]
    ELSE LET target == h.profiles[default_ref]
             source == h.profiles[OverrideRef(s)]
             merged == deepmerge(Deref(h, default_ref), Deref(h, OverrideRef(s)))
             ref == Len(h.profiles) + 1
             both == DOMAIN target \cap DOMAIN source
             fresh == { << ref, key >> : key \in both }
         IN [ heap |->
                [ styles |-> [x \in DOMAIN h.styles \cup fresh |->
                                IF x \in fresh THEN merged[x[2]] ELSE h.styles[x]],
                  profiles |-> Append(h.profiles,
                                [key \in DOMAIN merged |->
                                    IF key \in both THEN << ref, key >>
                                    ELSE IF key \in DOMAIN source THEN source[key]
                                    ELSE target[key]]) ],
              ref |-> ref ]

merge_syntax_heap(h, default_ref, s) ==
    IF SchemeObjects[s].syntax = {}
    THEN [ heap |-> h, ref |-> default_ref ]
    ELSE Alloc(h, merge_syntax(Deref(h, default_ref), SchemeValue(h, s)))

(***************************************************************************)
(* State.  One call of build_syntax on values: the scheme it is called     *)
(* with, the position in its body, and its two locals.  Calls on objects:  *)
(* the heap and, per caller, the scheme passed, the position in the call,  *)
(* the colour chroma.mix returned, the addresses of the default and of the *)
(* returned profile, and how often the caller wrote to what it got back.   *)
(***************************************************************************)
VARIABLES color_scheme, pc, default_syntax, syntax,
          heap, cpc, cscheme, cpredictive, cdefault, csyntax, cwrites

value_vars == << color_scheme, pc, default_syntax, syntax >>

heap_vars == << heap, cpc, cscheme, cpredictive, cdefault, csyntax, cwrites >>

vars == << color_scheme, pc, default_syntax, syntax,
           heap, cpc, cscheme, cpredictive, cdefault, csyntax, cwrites >>

Callers == { "a", "b" }

\* How often a caller writes to the profile it got back.
MaxWrites == 1

\* The keys whose style a caller writes to.
WrittenKeys == { "comment", "function.method" }

IdleScheme == [ ramps |-> DarkRamps, syntax |-> NoSyntax ]

InitValues ==
    /\ pc = "idle"
    /\ color_scheme = IdleScheme
    /\ default_syntax = EmptyObject
    /\ syntax = EmptyObject

InitObjects ==
    /\ heap = SchemeHeap
    /\ cpc = [c \in Callers |-> "idle"]
    /\ cscheme = [c \in Callers |-> 1]
    /\ cpredictive = [c \in Callers |-> << 0, 0, 0 >>]
    /\ cdefault = [c \in Callers |-> 0]
    /\ csyntax = [c \in Callers |-> 0]
    /\ cwrites = [c \in Callers |-> 0]

Init == InitValues /\ InitObjects

\* A caller calls build_syntax(color_scheme).
Call ==
    /\ pc = "idle"
    /\ \E cs \in ColorSchemes : color_scheme' = cs
    /\ pc' = "build"
    /\ UNCHANGED << default_syntax, syntax >>
    /\ UNCHANGED heap_vars

\* const default_syntax = build_default_syntax(color_scheme)
BuildDefault ==
    /\ pc = "build"
    /\ \E predictive \in MixResults(color_scheme.ramps.neutral[40],
                                    color_scheme.ramps.blue[40]) :
          default_syntax' = build_default_syntax(color_scheme, predictive)
    /\ pc' = "merge"
    /\ UNCHANGED << color_scheme, syntax >>
    /\ UNCHANGED heap_vars

\* const syntax = merge_syntax(default_syntax, color_scheme)
MergeSyntax ==
    /\ pc = "merge"
    /\ syntax' = merge_syntax(default_syntax, color_scheme)
    /\ pc' = "done"
    /\ UNCHANGED << color_scheme, default_syntax >>
    /\ UNCHANGED heap_vars

\* return syntax
Return ==
    /\ pc = "done"
    /\ pc' = "idle"
    /\ color_scheme' = IdleScheme
    /\ default_syntax' = EmptyObject
    /\ syntax' = EmptyObject
    /\ UNCHANGED heap_vars

Next == Call \/ BuildDefault \/ MergeSyntax \/ Return

Spec == Init /\ [][Next]_vars

(***************************************************************************)
(* Calls on objects.  Callers take their steps in any order.               *)
(***************************************************************************)
\* Caller c calls build_syntax with scheme object s.
CallWith(c) ==
    /\ cpc[c] = "idle"
    /\ \E s \in DOMAIN SchemeObjects : cscheme' = [cscheme EXCEPT ![c] = s]
    /\ cpc' = [cpc EXCEPT ![c] = "build"]
    /\ UNCHANGED << heap, cpredictive, cdefault, csyntax, cwrites >>
    /\ UNCHANGED value_vars

\* const default_syntax = build_default_syntax(color_scheme)
BuildDefaultObject(c) ==
    /\ cpc[c] = "build"
    /\ \E predictive \in MixResults(SchemeObjects[cscheme[c]].ramps.neutral[40],
                                    SchemeObjects[cscheme[c]].ramps.blue[40]) :
          LET built == build_default_syntax_heap(heap, cscheme[c], predictive) IN
          /\ heap' = built.heap
          /\ cdefault' = [cdefault EXCEPT ![c] = built.ref]
          /\ cpredictive' = [cpredictive EXCEPT ![c] = predictive]
    /\ cpc' = [cpc EXCEPT ![c] = "merge"]
    /\ UNCHANGED << cscheme, csyntax, cwrites >>
    /\ UNCHANGED value_vars

\* const syntax = merge_syntax(default_syntax, color_scheme); return syntax
MergeSyntaxObject(c) ==
    /\ cpc[c] = "merge"
    /\ LET merged == merge_syntax_heap(heap, cdefault[c], cscheme[c]) IN
          /\ heap' = merged.heap
          /\ csyntax' = [csyntax EXCEPT ![c] = merged.ref]
    /\ cpc' = [cpc EXCEPT ![c] = "done"]
    /\ UNCHANGED << cscheme, cpredictive, cdefault, cwrites >>
    /\ UNCHANGED value_vars

\* Caller c writes a color to a style of the profile it got back.
WriteReturned(c) ==
    /\ cpc[c] = "done"
    /\ cwrites[c] < MaxWrites
    /\ \E key \in WrittenKeys \cap DOMAIN heap.profiles[csyntax[c]] :
          heap' = [heap EXCEPT !.styles[heap.profiles[csyntax[c]][key]] =
                                  mergeStyle(@, [color |-> "#ff00ff"])]
    /\ cwrites' = [cwrites EXCEPT ![c] = @ + 1]
    /\ UNCHANGED << cpc, cscheme, cpredictive, cdefault, csyntax >>
    /\ UNCHANGED value_vars

NextObjects ==
    \E c \in Callers :
        \/ CallWith(c)
        \/ BuildDefaultObject(c)
        \/ MergeSyntaxObject(c)
        \/ WriteReturned(c)

SpecObjects == Init /\ [][NextObjects]_vars

(***************************************************************************)
(* Properties of one call of build_syntax.                                 *)
(***************************************************************************)
HasOverride == color_scheme.syntax # NoSyntax

Override == OverrideOf(color_scheme)

\* The profile holds the key with a colour that is not the empty string.
HasColor(profile, key) ==
    /\ key \in DOMAIN profile
    /\ "color" \in DOMAIN profile[key]
    /\ profile[key].color # ""

\* The profile's key sets the attribute to the value.
Sets(profile, key, a, value) ==
    /\ key \in DOMAIN profile
    /\ a \in DOMAIN profile[key]
    /\ profile[key][a] = value

\* The default profile has been built.
DefaultBuilt == pc \in { "merge", "done" }

\* C1: in the profile build_default_syntax returns, every required category
\* of Syntax has a color that is present and not empty.
C1_DefaultTotality ==
    DefaultBuilt => \A key \in RequiredCategories : HasColor(default_syntax, key)

C1_Witness ==
    /\ pc = "merge"
    /\ color_scheme.ramps = LightRamps
    /\ HasColor(default_syntax, "embedded")
    /\ HasColor(default_syntax, "predictive")

\* C2 as stated: whatever the override holds, the merged profile has a
\* present, non-empty color on every required category, and a default color
\* is either kept or replaced by the override's.
C2_MergeKeepsColor_AnyOverride ==
    pc = "done" =>
        \A key \in RequiredCategories :
            /\ HasColor(syntax, key)
            /\ \/ syntax[key].color = default_syntax[key].color
               \/ /\ HasOverride
                  /\ Sets(Override, key, "color", syntax[key].color)

\* The override gives no key an empty color.
OverrideColorsNonEmpty ==
    HasOverride =>
        \A key \in DOMAIN Override :
            "color" \in DOMAIN Override[key] => Override[key].color # ""

\* C2 amended: when every color the override sets is a non-empty string, the
\* merged profile has a present, non-empty color on every required category,
\* and each of these colors is the default's or the one the override sets.
C2_MergeKeepsColor ==
    (pc = "done" /\ OverrideColorsNonEmpty) =>
        \A key \in RequiredCategories :
            /\ HasColor(syntax, key)
            /\ \/ syntax[key].color = default_syntax[key].color
               \/ /\ HasOverride
                  /\ Sets(Override, key, "color", syntax[key].color)

C2_Witness ==
    /\ pc = "done"
    /\ HasOverride
    /\ OverrideColorsNonEmpty
    /\ Sets(Override, "keyword", "color", "#112233")
    /\ Sets(syntax, "keyword", "color", "#112233")
    /\ default_syntax["keyword"].color # "#112233"

\* C3: for every category the override holds and every attribute, the merged
\* category has the override's value when the override sets the attribute,
\* and otherwise exactly what the default has (its value, or nothing).
C3_AttributeWiseMerge ==
    (pc = "done" /\ HasOverride) =>
        \A key \in DOMAIN Override \cap Categories :
            /\ key \in DOMAIN syntax
            /\ \A a \in Attributes :
                IF a \in DOMAIN Override[key]
                THEN Sets(syntax, key, a, Override[key][a])
                ELSE IF key \in DOMAIN default_syntax /\ a \in DOMAIN default_syntax[key]
                     THEN Sets(syntax, key, a, default_syntax[key][a])
                     ELSE a \notin DOMAIN syntax[key]

\* The override { comment: { italic: true } } keeps comment.color and sets
\* comment.italic.
C3_Witness ==
    /\ pc = "done"
    /\ HasOverride
    /\ Override = [key \in {"comment"} |-> [italic |-> TRUE]]
    /\ Sets(syntax, "comment", "italic", TRUE)
    /\ Sets(syntax, "comment", "color", default_syntax["comment"].color)

\* The scheme carries no override data: no syntax property, or an empty one.
NoOverrideData == color_scheme.syntax \in { NoSyntax, { EmptyObject } }

\* C4: for a scheme that carries no override data, merge_syntax returns a
\* profile equal to the default profile, key by key and attribute by
\* attribute.
C4_IdentityOnAbsentOverride ==
    (pc = "done" /\ NoOverrideData) => syntax = default_syntax

C4_Witness ==
    /\ pc = "done"
    /\ color_scheme.syntax = NoSyntax
    /\ DOMAIN syntax = LiteralKeys
    /\ DOMAIN syntax["predictive"] = { "color", "italic" }

\* C6 as stated: the keys of a returned profile are all categories of Syntax.
C6_KeysWithinCategories ==
    pc = "done" => DOMAIN syntax \subseteq Categories

\* The flag values step 4 of the builder sets on a category.
ExpectedWeight(key) ==
    IF key \in { "emphasis.strong", "title" } THEN font_weights.bold ELSE "normal"

ExpectedUnderline(key) == key = "link_uri"

ExpectedItalic(key) == key \in { "predictive", "link_text" }

\* C8 as stated: every required category of the default profile carries
\* weight, underline and italic, with the default values except where the
\* builder sets another.
C8_DefaultAttributesPopulated ==
    DefaultBuilt =>
        \A key \in RequiredCategories :
            /\ Sets(default_syntax, key, "weight", ExpectedWeight(key))
            /\ Sets(default_syntax, key, "underline", ExpectedUnderline(key))
            /\ Sets(default_syntax, key, "italic", ExpectedItalic(key))

\* The ramp each category's default color is sampled from, and where.
ExpectedRamp(key) ==
    CASE key \in { "primary", "title", "variable", "preproc", "embedded" } ->
            << "neutral", 100 >>
      [] key \in { "comment", "comment.doc", "string.escape" } -> << "neutral", 71 >>
      [] key \in { "punctuation", "punctuation.bracket", "punctuation.delimiter",
                   "punctuation.special", "punctuation.list_marker" } ->
            << "neutral", 86 >>
      [] key \in { "keyword", "emphasis", "emphasis.strong", "constructor",
                   "variant", "property", "tag", "attribute", "label" } ->
            << "blue", 50 >>
      [] key \in { "string", "string.special", "text.literal", "enum", "operator",
                   "link_text" } ->
            << "orange", 50 >>
      [] key \in { "number", "boolean", "constant", "link_uri" } -> << "green", 50 >>
      [] key = "function" -> << "yellow", 50 >>
      [] key = "type" -> << "cyan", 50 >>

TableKeys == (RequiredCategories \ { "predictive" }) \cup { "string.escape" }

\* C9: without an override, build_syntax gives every category of the table
\* the color of its ramp at its lightness, predictive and link_text are
\* italic, link_uri is underlined, emphasis.strong and title are bold.
C9_DefaultColorTable ==
    (pc = "done" /\ ~HasOverride) =>
        /\ \A key \in TableKeys :
             Sets(syntax, key, "color",
                  hex(color_scheme.ramps[ExpectedRamp(key)[1]][ExpectedRamp(key)[2]]))
        /\ Sets(syntax, "predictive", "italic", TRUE)
        /\ Sets(syntax, "link_text", "italic", TRUE)
        /\ Sets(syntax, "link_uri", "underline", TRUE)
        /\ Sets(syntax, "emphasis.strong", "weight", font_weights.bold)
        /\ Sets(syntax, "title", "weight", font_weights.bold)

\* The example scheme: neutral(1) is #ffffff, blue(0.5) is #3b82f6.
C9_Witness ==
    /\ pc = "done"
    /\ ~HasOverride
    /\ color_scheme.ramps = DarkRamps
    /\ Sets(syntax, "primary", "color", "#ffffff")
    /\ Sets(syntax, "keyword", "color", "#3b82f6")
    /\ Sets(syntax, "link_uri", "underline", TRUE)

\* The optional categories the builder's literal does not write.
UnassignedOptional == OptionalCategories \ LiteralKeys

SchemeOverrideObjects ==
    UNION { Objects(heap, ref) :
              ref \in UNION { SchemeObjects[s].syntax : s \in DOMAIN SchemeObjects } }

\* C5: the step in which merge_syntax runs leaves the default profile object
\* with the keys, style objects and attribute values it had, leaves the
\* scheme's override object as it was, and gives every key the override does
\* not hold exactly the default's attributes in the result.
C5_MergeNonDestructive ==
    [][\A c \in Callers :
        (cpc[c] = "merge" /\ cpc'[c] = "done") =>
            /\ heap'.profiles[cdefault[c]] = heap.profiles[cdefault[c]]
            /\ Deref(heap', cdefault[c]) = Deref(heap, cdefault[c])
            /\ \A ref \in SchemeObjects[cscheme[c]].syntax :
                  /\ heap'.profiles[ref] = heap.profiles[ref]
                  /\ Deref(heap', ref) = Deref(heap, ref)
            /\ \A key \in DOMAIN heap.profiles[cdefault[c]] :
                  (\A ref \in SchemeObjects[cscheme[c]].syntax :
                      key \notin DOMAIN heap.profiles[ref]) =>
                  /\ key \in DOMAIN heap'.profiles[csyntax'[c]]
                  /\ Deref(heap', csyntax'[c])[key] = Deref(heap, cdefault[c])[key]
      ]_vars

\* A call with an override has returned: the result has the override's key,
\* the default profile does not.
C5_Witness ==
    \E c \in Callers :
        /\ cpc[c] = "done"
        /\ cscheme[c] = 2
        /\ csyntax[c] # cdefault[c]
        /\ "function.method" \in DOMAIN heap.profiles[csyntax[c]]
        /\ "function.method" \notin DOMAIN heap.profiles[cdefault[c]]
        /\ "italic" \in DOMAIN Deref(heap, csyntax[c])["comment"]
        /\ "italic" \notin DOMAIN Deref(heap, cdefault[c])["comment"]

\* What build_syntax returns for the scheme caller c passed, from the
\* scheme as it was before any call.
ExpectedSyntax(c) ==
    LET scheme == SchemeValue(SchemeHeap, cscheme[c])
    IN merge_syntax(build_default_syntax(scheme, cpredictive[c]), scheme)

\* C7: in every interleaving of calls and of callers' writes to what they
\* got back, every scheme stays as it was; a returned profile its caller has
\* not written to is what its own scheme alone determines; and a returned
\* profile shares no object with a scheme's override or with a profile of
\* another call.
C7_CallsIndependent ==
    /\ \A s \in DOMAIN SchemeObjects : SchemeValue(heap, s) = SchemeValue(SchemeHeap, s)
    /\ \A c \in Callers :
          cpc[c] = "done" =>
             /\ cwrites[c] = 0 => Deref(heap, csyntax[c]) = ExpectedSyntax(c)
             /\ Objects(heap, csyntax[c]) \cap SchemeOverrideObjects = {}
             /\ \A d \in Callers \ {c} :
                   /\ cpc[d] \in { "merge", "done" } =>
                        Objects(heap, csyntax[c]) \cap Objects(heap, cdefault[d]) = {}
                   /\ cpc[d] = "done" =>
                        Objects(heap, csyntax[c]) \cap Objects(heap, csyntax[d]) = {}

\* Two calls on the same scheme object have returned, and one caller has
\* written to its profile: the other's is as returned.
C7_Witness ==
    /\ cpc["a"] = "done" /\ cpc["b"] = "done"
    /\ cscheme["a"] = 2 /\ cscheme["b"] = 2
    /\ cwrites["a"] = 1 /\ cwrites["b"] = 0
    /\ Deref(heap, csyntax["a"])["function.method"].color = "#ff00ff"
    /\ Deref(heap, csyntax["b"])["function.method"].color = "#112233"

=============================================================================
